---- MODULE Spec2Model ----
(***************************************************************************)
(* Model of src/manager.py (DatasetManager): three linked pandas tables    *)
(* (sample metadata, chemical annotation, sample x feature abundance) and  *)
(* the operations that import, subset, re-key and split them.              *)
(*                                                                         *)
(* An identifier is a record [kind, v]: kind "num" is a Python number v,   *)
(* kind "str" the text str(v).  Str models str(i) / astype(str).           *)
(* A DataFrame with named columns is a "frame" [idx, cols, rows]: idx the  *)
(* name of the index column ("" for none / RangeIndex), cols the set of    *)
(* the other column names, rows the sequence of rows, each a function from *)
(* column name to cell.  The abundance table, whose column labels are      *)
(* ordered and may repeat, is a "matrix" [index, columns, vals].           *)
(***************************************************************************)
EXTENDS Integers, Sequences, FiniteSets, TLC

\* ------------------------------------------------------------------ bounds
MaxSamples == 2
MaxFeatures == 3
\* cap on the rows of the chemical annotation (label look-up on a
\* non-unique index multiplies rows)
MaxRows == 6
\* a save call is made while fewer than this many files have been written
MaxFiles == 1
\* get_all_residuals is called while fewer than this many calls have returned
MaxRuns == 2

\* --------------------------------------------------------------- sequences
Range(s) == {s[i] : i \in 1..Len(s)}

RECURSIVE Flatten(_)
Flatten(ss) == IF ss = <<>> THEN <<>> ELSE Head(ss) \o Flatten(Tail(ss))

\* the ascending positions of seq that carry label
Positions(seq, label) ==
    LET RECURSIVE P(_)
        P(i) == IF i > Len(seq) THEN <<>>
                ELSE IF seq[i] = label THEN <<i>> \o P(i + 1) ELSE P(i + 1)
    IN P(1)

\* pandas get_indexer_non_unique: for each requested label, every position
\* that carries it, in request order
MatchAll(seq, labels) ==
    Flatten([k \in 1..Len(labels) |-> Positions(seq, labels[k])])

\* positions whose label is not among labels (what drop keeps)
KeepPositions(seq, labels) ==
    LET RECURSIVE P(_)
        P(i) == IF i > Len(seq) THEN <<>>
                ELSE IF seq[i] \in Range(labels) THEN P(i + 1)
                ELSE <<i>> \o P(i + 1)
    IN P(1)

Take(seq, poss) == [k \in 1..Len(poss) |-> seq[poss[k]]]

\* ------------------------------------------------------------- identifiers
Ident(kind, n) == [kind |-> kind, v |-> n]
Str(id) == [kind |-> "str", v |-> id.v]
StrAll(seq) == [i \in 1..Len(seq) |-> Str(seq[i])]
IsStr(id) == id.kind = "str"

\* ------------------------------------------------------------------ frames
NoFrame == [idx |-> "", cols |-> {}, rows |-> <<>>]
Index(fr) == [i \in 1..Len(fr.rows) |-> fr.rows[i][fr.idx]]
Column(fr, c) == [i \in 1..Len(fr.rows) |-> fr.rows[i][c]]
\* fr[c] = fr[c].astype(str)
AsTypeStr(fr, c) ==
    [fr EXCEPT !.rows = [i \in 1..Len(fr.rows) |->
                            [fr.rows[i] EXCEPT ![c] = Str(fr.rows[i][c])]]]
SetIndex(fr, c) == [idx |-> c, cols |-> fr.cols \ {c}, rows |-> fr.rows]
ResetIndex(fr) == [idx |-> "", cols |-> fr.cols \cup {fr.idx}, rows |-> fr.rows]
\* fr.loc[labels] with a list of labels: KeyError when a label is absent
LocOK(fr, labels) == Range(labels) \subseteq Range(Index(fr))
Loc(fr, labels) == [fr EXCEPT !.rows = Take(fr.rows, MatchAll(Index(fr), labels))]

\* ---------------------------------------------------------------- matrices
NoData == [index |-> <<>>, columns |-> <<>>, vals |-> <<>>]
TakeColumns(m, poss) ==
    [index |-> m.index, columns |-> Take(m.columns, poss),
     vals |-> [i \in 1..Len(m.index) |-> Take(m.vals[i], poss)]]
TakeRows(m, poss) ==
    [index |-> Take(m.index, poss), columns |-> m.columns,
     vals |-> Take(m.vals, poss)]
\* m[labels]
SelectColumns(m, labels) == TakeColumns(m, MatchAll(m.columns, labels))
\* m.loc[labels]
LocRows(m, labels) == TakeRows(m, MatchAll(m.index, labels))
\* m.drop(columns=labels), m.drop(index=labels): KeyError when a label is absent
DropColumns(m, labels) == TakeColumns(m, KeepPositions(m.columns, labels))
DropRows(m, labels) == TakeRows(m, KeepPositions(m.index, labels))

\* ---------------------------------------------------------- program values
\* DatasetManager.__init__ defaults
sample_id_column == "PARENT_SAMPLE_NAME"
DefaultMetaboliteIdColumn == "CHEM_ID"

\* cells of the annotation column SUPER_PATHWAY
XenoCapital == [kind |-> "str", v |-> 91]      \* "Xenobiotics"
XenoLower == [kind |-> "str", v |-> 90]        \* "xenobiotics"
Lipid == [kind |-> "str", v |-> 92]            \* "Lipid"
\* str.lower() on a pathway cell
Lower(x) == IF x = XenoCapital THEN XenoLower ELSE x

None == [kind |-> "None"]
Raise(d, e, msg, ids) ==
    [d |-> d, ok |-> FALSE, err |-> e, msg |-> msg, ids |-> ids, ret |-> None]
Return(d, ret) ==
    [d |-> d, ok |-> TRUE, err |-> "", msg |-> "", ids |-> {}, ret |-> ret]

\* ------------------------------------------------------------ input tables
\* The tables handed to import_tables, as the parser returns them (default
\* RangeIndex, identifiers of one kind).  Sample s has batch A or B and a
\* missing "group" for sample 1; feature f has the unique name 10+f, and
\* pathway "Xenobiotics" for feature 1, "Lipid" for the others.
RawSampleMetadata(kind, n, hasId) ==
    LET cols == {"batch", "group"} \cup (IF hasId THEN {sample_id_column} ELSE {})
        cell(s, c) == IF c = sample_id_column THEN Ident(kind, s)
                      ELSE IF c = "batch" THEN (IF s % 2 = 1 THEN "A" ELSE "B")
                      ELSE (IF s = 1 THEN "NaN" ELSE "G")
    IN [idx |-> "", cols |-> cols,
        rows |-> [s \in 1..n |-> [c \in cols |-> cell(s, c)]]]

RawChemicalAnnotation(kind, n, hasId) ==
    LET cols == {"CHEMICAL_NAME", "SUPER_PATHWAY"}
                  \cup (IF hasId THEN {DefaultMetaboliteIdColumn} ELSE {})
        cell(f, c) == IF c = DefaultMetaboliteIdColumn THEN Ident(kind, f)
                      ELSE IF c = "CHEMICAL_NAME" THEN Ident("str", 10 + f)
                      ELSE (IF f = 1 THEN XenoCapital ELSE Lipid)
    IN [idx |-> "", cols |-> cols,
        rows |-> [f \in 1..n |-> [c \in cols |-> cell(f, c)]]]

\* abundance table as delivered: one row per sample, a column of sample
\* metadata ("CLIENT_ID") and then the columns of features lo..MaxFeatures in
\* descending order; cell (s, f) holds 10 s + f
MetadataColumns == <<Ident("str", 51)>>
RawData(kind, ns, lo, hasId) ==
    LET features == [j \in 1..(MaxFeatures + 1 - lo) |->
                       Ident(kind, MaxFeatures + 1 - j)]
    IN [sid_present |-> hasId,
        index |-> [s \in 1..ns |-> Ident(kind, s)],
        columns |-> MetadataColumns \o features,
        vals |-> [s \in 1..ns |->
                    [j \in 1..Len(MetadataColumns) |-> 0]
                      \o [j \in 1..Len(features) |-> 10 * s + features[j].v]]]

\* ----------------------------------------------------------------- dataset
\* the attributes of a DatasetManager
NewDataset(mid) ==
    [sample_metadata |-> NoFrame, samples |-> <<>>,
     chemical_annotation |-> NoFrame, metabolites |-> <<>>,
     data |-> NoData, metabolite_id_column |-> mid]

_update_chemical_annotation(d) ==
    LET labels == d.data.columns
        ca == Loc(d.chemical_annotation, labels)
    IN IF ~LocOK(d.chemical_annotation, labels)
       THEN Raise(d, "KeyError", "not in index",
                  Range(labels) \ Range(Index(d.chemical_annotation)))
       ELSE Return([d EXCEPT !.chemical_annotation = ca,
                             !.metabolites = Index(ca)], None)

_update_sample_metadata(d) ==
    LET labels == d.data.index
        sm == Loc(d.sample_metadata, labels)
    IN IF ~LocOK(d.sample_metadata, labels)
       THEN Raise(d, "KeyError", "not in index",
                  Range(labels) \ Range(Index(d.sample_metadata)))
       ELSE Return([d EXCEPT !.sample_metadata = sm, !.samples = Index(sm)], None)

_remove_metadata_from_data(d) ==
    LET labels == Index(d.chemical_annotation)
    IN IF ~(Range(labels) \subseteq Range(d.data.columns))
       THEN Raise(d, "KeyError", "not in index",
                  Range(labels) \ Range(d.data.columns))
       ELSE Return([d EXCEPT !.data = SelectColumns(d.data, labels)], None)

_setup_data(d, chemical_annotation, sample_metadata, data) ==
    LET sm == SetIndex(AsTypeStr(sample_metadata, sample_id_column),
                       sample_id_column)
        d1 == [d EXCEPT !.sample_metadata = sm,
                        !.data = [index |-> data.index,
                                  columns |-> StrAll(data.columns),
                                  vals |-> data.vals],
                        !.samples = Index(sm)]
        ca == SetIndex(AsTypeStr(chemical_annotation, d.metabolite_id_column),
                       d.metabolite_id_column)
        d2 == [d1 EXCEPT !.chemical_annotation = ca, !.metabolites = Index(ca)]
    IN IF ~(data.sid_present /\ sample_id_column \in sample_metadata.cols)
       THEN Raise(d, "ValueError",
                  "Error setting up data: No sample ID column found in data", {})
       ELSE IF d.metabolite_id_column \notin chemical_annotation.cols
       THEN Raise(d1, "ValueError",
                  "Error setting up data: No metabolite ID column found in chemical annotation",
                  {})
       ELSE Return(d2, None)

import_tables(d, data, chemical_annotation, sample_metadata) ==
    LET r == _setup_data(d, chemical_annotation, sample_metadata, data)
    IN IF ~r.ok THEN Raise(r.d, "ValueError", "Error importing data", {})
       ELSE _remove_metadata_from_data(r.d)

drop_samples(d, samples_to_drop, inplace) ==
    LET labels == StrAll(samples_to_drop)
        remaining == DropRows(d.data, labels)
    IN IF ~(Range(labels) \subseteq Range(d.data.index))
       THEN Raise(d, "KeyError", "not found in axis",
                  Range(labels) \ Range(d.data.index))
       ELSE IF inplace
       THEN _update_sample_metadata([d EXCEPT !.data = remaining])
       ELSE Return(d, remaining)

\* variant of drop_metabolites that applies the drop to the dataset whatever
\* the inplace flag
drop_metabolites_always_inplace(d, metabolites_to_drop, inplace) ==
    LET labels == StrAll(metabolites_to_drop)
        remaining == DropColumns(d.data, labels)
        r == _update_chemical_annotation([d EXCEPT !.data = remaining])
    IN IF ~(Range(labels) \subseteq Range(d.data.columns))
       THEN Raise(d, "KeyError", "not found in axis",
                  Range(labels) \ Range(d.data.columns))
       ELSE IF inplace \/ ~r.ok THEN r
       ELSE Return(r.d, remaining)

drop_metabolites(d, metabolites_to_drop, inplace) ==
    LET labels == StrAll(metabolites_to_drop)
        remaining == DropColumns(d.data, labels)
    IN IF ~(Range(labels) \subseteq Range(d.data.columns))
       THEN Raise(d, "KeyError", "not found in axis",
                  Range(labels) \ Range(d.data.columns))
       ELSE IF inplace
       THEN _update_chemical_annotation([d EXCEPT !.data = remaining])
       ELSE Return(d, remaining)

drop_xenobiotic_metabolites(d, inplace) ==
    LET ca == d.chemical_annotation
        pathway == Column(ca, "SUPER_PATHWAY")
        xenobiotic_metabolites ==
            Take(Index(ca), Positions([i \in 1..Len(pathway) |->
                                         Lower(pathway[i]) = XenoLower], TRUE))
    IN IF "SUPER_PATHWAY" \notin ca.cols
       THEN Raise(d, "KeyError", "SUPER_PATHWAY", {})
       ELSE drop_metabolites(d, xenobiotic_metabolites, inplace)

\* variant of replace_column_names that records the new identifier column
\* before it validates
replace_column_names_set_first(d, new_column) ==
    LET ca == d.chemical_annotation
        not_annotated == Range(d.data.columns) \ Range(Index(ca))
        d0 == [d EXCEPT !.metabolite_id_column = new_column]
        renaming_dict(old) ==
            LET ps == Positions(Index(ca), old)
            IN ca.rows[ps[Len(ps)]][new_column]
        d1 == [d0 EXCEPT !.data.columns = [j \in 1..Len(d.data.columns) |->
                                             renaming_dict(d.data.columns[j])],
                         !.chemical_annotation = SetIndex(ResetIndex(ca), new_column)]
    IN IF new_column \notin ca.cols
       THEN Raise(d0, "ValueError", "No column named in the metabolite metadata", {})
       ELSE IF not_annotated # {}
       THEN Raise(d0, "ValueError", "Missing chemical annotation for", not_annotated)
       ELSE _update_chemical_annotation(d1)

\* variant of replace_column_names that discards the old index
\* (reset_index(drop=True)) instead of keeping it as a column
replace_column_names_drop_index(d, new_column) ==
    LET ca == d.chemical_annotation
        not_annotated == Range(d.data.columns) \ Range(Index(ca))
        renaming_dict(old) ==
            LET ps == Positions(Index(ca), old)
            IN ca.rows[ps[Len(ps)]][new_column]
        d1 == [d EXCEPT !.data.columns = [j \in 1..Len(d.data.columns) |->
                                            renaming_dict(d.data.columns[j])],
                        !.metabolite_id_column = new_column,
                        !.chemical_annotation =
                            SetIndex([ca EXCEPT !.idx = ""], new_column)]
    IN IF new_column \notin ca.cols
       THEN Raise(d, "ValueError", "No column named in the metabolite metadata", {})
       ELSE IF not_annotated # {}
       THEN Raise(d, "ValueError", "Missing chemical annotation for", not_annotated)
       ELSE _update_chemical_annotation(d1)

replace_column_names(d, new_column) ==
    LET ca == d.chemical_annotation
        not_annotated == Range(d.data.columns) \ Range(Index(ca))
        \* dict built from zip(index, column): the last row of a label wins
        renaming_dict(old) ==
            LET ps == Positions(Index(ca), old)
            IN ca.rows[ps[Len(ps)]][new_column]
        d1 == [d EXCEPT !.data.columns = [j \in 1..Len(d.data.columns) |->
                                            renaming_dict(d.data.columns[j])],
                        !.metabolite_id_column = new_column,
                        !.chemical_annotation = SetIndex(ResetIndex(ca), new_column)]
    IN IF new_column \notin ca.cols
       THEN Raise(d, "ValueError", "No column named in the metabolite metadata", {})
       ELSE IF not_annotated # {}
       THEN Raise(d, "ValueError", "Missing chemical annotation for", not_annotated)
       ELSE _update_chemical_annotation(d1)

\* ------------------------------------------------------ read-only operations
\* DataFrame.merge(left_index=True, right_index=True, how=...) of a frame
\* with a matrix: one row per matching pair in left order; under "left" an
\* unmatched left row is kept with position 0 (a row of missing values)
JoinPairs(left, right, how) ==
    Flatten([i \in 1..Len(left) |->
               LET ps == Positions(right, left[i])
               IN IF ps = <<>>
                  THEN (IF how = "left" THEN << <<i, 0>> >> ELSE <<>>)
                  ELSE [k \in 1..Len(ps) |-> <<i, ps[k]>>]])

Merge(fr, m, how) ==
    LET pairs == JoinPairs(Index(fr), m.index, how)
    IN [kind |-> "merged",
        index |-> [k \in 1..Len(pairs) |-> fr.rows[pairs[k][1]][fr.idx]],
        meta |-> [k \in 1..Len(pairs) |-> fr.rows[pairs[k][1]]],
        columns |-> m.columns,
        vals |-> [k \in 1..Len(pairs) |->
                    IF pairs[k][2] = 0
                    THEN [j \in 1..Len(m.columns) |-> "NaN"]
                    ELSE m.vals[pairs[k][2]]]]

merge_sample_metadata_data(d) ==
    Return(d, Merge(d.sample_metadata, d.data, "inner"))

extract_metabolites(d, metabolites_to_extract) ==
    LET labels == StrAll(metabolites_to_extract)
    IN IF ~(Range(labels) \subseteq Range(d.data.columns))
       THEN Raise(d, "KeyError", "not in index",
                  Range(labels) \ Range(d.data.columns))
       ELSE Return(d, Merge(d.sample_metadata,
                            SelectColumns(d.data, labels), "inner"))

extract_samples(d, samples_to_extract) ==
    IF ~LocOK(d.sample_metadata, samples_to_extract)
    THEN Raise(d, "KeyError", "not in index",
               Range(samples_to_extract) \ Range(Index(d.sample_metadata)))
    ELSE Return(d, Merge(Loc(d.sample_metadata, samples_to_extract),
                         d.data, "left"))

extract_chemical_annotations(d, metabolites_to_extract) ==
    LET labels == StrAll(metabolites_to_extract)
    IN IF ~LocOK(d.chemical_annotation, labels)
       THEN Raise(d, "KeyError", "not in index",
                  Range(labels) \ Range(Index(d.chemical_annotation)))
       ELSE Return(d, Loc(d.chemical_annotation, labels))

\* ------------------------------------------------------------------- split
\* DataFrame.groupby(by=column): the distinct values of the column, missing
\* values left out (dropna=True)
GroupKeys(fr, column) == Range(Column(fr, column)) \ {"NaN"}
\* The loop body builds each child with MetaboTK(...), a name that manager.py
\* neither defines nor imports: the first iteration raises NameError.  With
\* no group the loop does not run and the empty mapping is returned.
split_by_sample_column(d, column) ==
    LET sm == d.sample_metadata
        names == GroupKeys(sm, column)
    IN IF column \notin sm.cols
       THEN Raise(d, "KeyError", column, {})
       ELSE IF names # {}
       THEN Raise(d, "NameError", "name 'MetaboTK' is not defined", {})
       ELSE Return(d, [kind |-> "split", parts |-> [name \in names |-> d]])

\* -------------------------------------------------------------------- save
\* DataFrame.to_csv of a table: the file written, with its number of rows
Written(table, rows) == [table |-> table, rows |-> rows]

\* a path argument is given (TRUE) or left None (FALSE); ret is the set of
\* files the call wrote
save(d, data_path, chemical_annotation_path, sample_metadata_path) ==
    IF Len(d.data.index) = 0
    THEN Raise(d, "ValueError", "Trying to save an empty dataframe", {})
    ELSE Return(d,
           (IF data_path THEN {Written("data", Len(d.data.index))} ELSE {})
           \cup (IF chemical_annotation_path
                 THEN {Written("chemical_annotation", Len(d.chemical_annotation.rows))}
                 ELSE {})
           \cup (IF sample_metadata_path
                 THEN {Written("sample_metadata", Len(d.sample_metadata.rows))}
                 ELSE {}))

save_merged(d, chemical_annotation_path) ==
    LET merged == merge_sample_metadata_data(d).ret
    IN IF Len(merged.index) = 0
       THEN Raise(d, "ValueError", "Trying to save an empty dataframe", {})
       ELSE Return(d,
              {Written("merged", Len(merged.index))}
              \cup (IF chemical_annotation_path
                    THEN {Written("chemical_annotation",
                                  Len(d.chemical_annotation.rows))}
                    ELSE {}))

\* ---------------------------------------------------------- EffectsHandler
\* EffectsHandler (effects_models.py).  residuals_id names the object that
\* self.residuals refers to, by the statement that created it.
\* The regression itself is opaque: the
\* residual of a cell v of the merged table is Resid(v); whether a fit fails,
\* and whether the library's error mentions the feature, is the
\* environment's choice `fit` = [bad, named] (bad: the feature whose fit
\* fails, or None).
NoHandler == [made |-> FALSE]
\* a cell of the residual matrix: np.nan, or the residual of abundance v
NaN == [resid |-> FALSE, of |-> 0]
Resid(v) == [resid |-> TRUE, of |-> v]
NaNMatrix(m) ==
    [index |-> m.index, columns |-> m.columns,
     vals |-> [i \in 1..Len(m.index) |-> [j \in 1..Len(m.columns) |-> NaN]]]

\* __init__: models_path is accepted and not used
NewEffectsHandler(d, models_path) ==
    [made |-> TRUE,
     merged |-> merge_sample_metadata_data(d).ret,
     residuals |-> NaNMatrix(d.data),
     residuals_id |-> "EffectsHandler.__init__"]

OLS(metabolite) == [metabolite |-> metabolite, fitted |-> FALSE]
Fit(model) == [model EXCEPT !.fitted = TRUE]

\* fit_model: ret is the pair (residuals, model); residuals is a series
\* over the rows of the merged table
fit_model(h, metabolite, fit) ==
    LET ps == Positions(h.merged.columns, metabolite)
        model == OLS(metabolite)
        fitted_model == Fit(model)
        residuals ==
            [index |-> h.merged.index,
             vals |-> [k \in 1..Len(h.merged.index) |->
                         Resid(h.merged.vals[k][ps[1]])]]
    IN IF ps = <<>>
       THEN Raise(h, "PatsyError", "no data named found", {metabolite})
       ELSE IF fit.bad = metabolite
       THEN Raise(h, "FitError", "raised by the regression library",
                  IF fit.named THEN {metabolite} ELSE {})
       ELSE Return(h, <<residuals, model>>)

\* self.residuals[metabolite] = residuals: the column is aligned on the row
\* labels; a label the series lacks gets NaN; a new label adds a column
SetColumn(m, label, series) ==
    LET at(i) == LET ps == Positions(series.index, m.index[i])
                 IN IF ps = <<>> THEN NaN ELSE series.vals[ps[1]]
        js == Positions(m.columns, label)
    IN IF js = <<>>
       THEN [m EXCEPT !.columns = @ \o <<label>>,
                      !.vals = [i \in 1..Len(m.index) |-> @[i] \o <<at(i)>>]]
       ELSE [m EXCEPT !.vals = [i \in 1..Len(m.index) |->
                                  [j \in 1..Len(m.columns) |->
                                     IF j \in Range(js) THEN at(i) ELSE @[i][j]]]]

\* the directory of pickled models
NoDirectory == [exists |-> FALSE, pickles |-> {}]
\* src.utils.create_directory: the directory exists afterwards
create_directory(dir) == [dir EXCEPT !.exists = TRUE]
\* dill.dump(model) to models_path/<metabolite>.pickle
Dump(dir, metabolite, model) ==
    [dir EXCEPT !.pickles = {p \in @ : p.name # metabolite}
                              \cup {[name |-> metabolite, model |-> model]}]

\* get_all_residuals: st is [h, dir]; the loop stops at the first fit that
\* raises, leaving what the earlier iterations did
RECURSIVE ResidualsLoop(_, _, _, _, _)
ResidualsLoop(metabolites, k, st, models_path, fit) ==
    IF k > Len(metabolites) THEN Return(st, st.h.residuals)
    ELSE LET r == fit_model(st.h, metabolites[k], fit)
             h1 == [st.h EXCEPT !.residuals = SetColumn(@, metabolites[k], r.ret[1])]
             dir1 == IF models_path THEN Dump(st.dir, metabolites[k], r.ret[2])
                     ELSE st.dir
         IN IF ~r.ok THEN Raise(st, r.err, r.msg, r.ids)
            ELSE ResidualsLoop(metabolites, k + 1, [h |-> h1, dir |-> dir1],
                               models_path, fit)

get_all_residuals(h, d, dir, models_path, fit) ==
    ResidualsLoop(d.metabolites, 1,
                  [h |-> h,
                   dir |-> IF models_path THEN create_directory(dir) ELSE dir],
                  models_path, fit)

\* ------------------------------------------------------------------- state
VARIABLES
    sample_metadata,       \* frame indexed by sample id
    samples,               \* list of sample ids
    chemical_annotation,   \* frame indexed by feature id
    metabolites,           \* list of feature ids
    data,                  \* abundance matrix
    metabolite_id_column,  \* name of the active feature-id column
    call,                  \* the last call: [op, arg, inplace]
    out,                   \* its outcome: [ok, err, msg, ids, ret]
    pre,                   \* the dataset as it was when the last call began
    ready,                 \* import_tables has returned without an error
    files,                 \* the files written so far: a set of [table, rows]
    handler,               \* the EffectsHandler built on the manager, if any
    models_dir,            \* the directory of pickled models
    hist                   \* the models_path given to the EffectsHandler, the
                           \* abundance matrix it was built on, and what each
                           \* get_all_residuals returned

vars == <<sample_metadata, samples, chemical_annotation, metabolites, data,
          metabolite_id_column, call, out, pre, ready, files, handler,
          models_dir, hist>>

Self ==
    [sample_metadata |-> sample_metadata, samples |-> samples,
     chemical_annotation |-> chemical_annotation, metabolites |-> metabolites,
     data |-> data, metabolite_id_column |-> metabolite_id_column]

\* a call op(arg, inplace) with outcome r has run on the manager
Call(op, arg, inplace, outcome) ==
    \E r \in {outcome} :
       /\ Len(r.d.chemical_annotation.rows) <= MaxRows
       /\ sample_metadata' = r.d.sample_metadata
       /\ samples' = r.d.samples
       /\ chemical_annotation' = r.d.chemical_annotation
       /\ metabolites' = r.d.metabolites
       /\ data' = r.d.data
       /\ metabolite_id_column' = r.d.metabolite_id_column
       /\ call' = [op |-> op, arg |-> arg, inplace |-> inplace]
       /\ out' = [ok |-> r.ok, err |-> r.err, msg |-> r.msg, ids |-> r.ids,
                  ret |-> r.ret]
       /\ pre' = Self
       /\ ready' = IF op = "import_tables" THEN r.ok ELSE ready

\* a call that writes no file
Apply(op, arg, inplace, outcome) ==
    /\ Call(op, arg, inplace, outcome)
    /\ UNCHANGED <<files, handler, models_dir, hist>>

Init ==
    /\ sample_metadata = NoFrame
    /\ samples = <<>>
    /\ chemical_annotation = NoFrame
    /\ metabolites = <<>>
    /\ data = NoData
    /\ metabolite_id_column = DefaultMetaboliteIdColumn
    /\ call = [op |-> "__init__", arg |-> <<>>, inplace |-> FALSE]
    /\ out = [ok |-> TRUE, err |-> "", msg |-> "", ids |-> {}, ret |-> None]
    /\ pre = NewDataset(DefaultMetaboliteIdColumn)
    /\ ready = FALSE
    /\ files = {}
    /\ handler = NoHandler
    /\ models_dir = NoDirectory
    /\ hist = [models_path |-> FALSE, data |-> NoData, returns |-> <<>>]

\* ------------------------------------------------------------------ inputs
IdKinds == {"num", "str"}
Absent == Ident("str", 0)
\* lists of at most two identifiers of S (a pair in one order only)
Lists(S) == {<<>>} \cup {<<a>> : a \in S}
               \cup {<<p[1], p[2]>> : p \in {q \in S \X S : q[1].v < q[2].v}}
\* sample arguments: the text form of the identifiers in use, one absent
\* identifier, and one number
SampleIds == {Str(x) : x \in Range(data.index) \cup Range(samples)} \cup {Absent}
SampleArgs == Lists(SampleIds) \cup {<<Ident("num", 1)>>}
FeatureIds == Range(data.columns) \cup Range(metabolites) \cup {Absent}
FeatureArgs == Lists(FeatureIds)
FeatureArg1 == {<<a>> : a \in FeatureIds}
MetaboliteColumns == {"CHEM_ID", "CHEMICAL_NAME", "SUPER_PATHWAY", "HMDB"}
SampleColumns == {"batch", "group", "site"}
\* an input table has all the rows (columns) of the universe, or lacks the last
TableSizes(n) == {n - 1, n}
\* the input table that lacks its identifier column, if any
MissingColumn == {"none", "sample_metadata", "data", "chemical_annotation"}

\* ----------------------------------------------------------------- actions
\* The inputs of import_tables.  The regular input has text identifiers,
\* every identifier column, and tables that list every sample and feature.
\* An input departs from it in at most one respect: numeric identifiers; a
\* missing identifier column; a sample missing from the sample metadata or
\* from the abundance table; the last feature missing from the chemical
\* annotation and/or the first from the abundance table.
Inputs ==
    LET all == [kind : IdKinds, missing : MissingColumn,
                nsm : TableSizes(MaxSamples), nds : TableSizes(MaxSamples),
                nca : TableSizes(MaxFeatures), lo : {1, 2}]
        irregularities(i) ==
            (IF i.kind # "str" THEN 1 ELSE 0)
              + (IF i.missing # "none" THEN 1 ELSE 0)
              + (IF <<i.nsm, i.nds>> # <<MaxSamples, MaxSamples>> THEN 1 ELSE 0)
              + (IF <<i.nca, i.lo>> # <<MaxFeatures, 1>> THEN 1 ELSE 0)
    IN {i \in all : irregularities(i) <= 1 /\ MaxSamples \in {i.nsm, i.nds}}

\* import_tables initializes a freshly constructed manager: it is the first
\* call made on it
ImportTables ==
    /\ call.op = "__init__"
    /\ \E i \in Inputs :
          Apply("import_tables", i, TRUE,
                import_tables(Self,
                              RawData(i.kind, i.nds, i.lo, i.missing # "data"),
                              RawChemicalAnnotation(i.kind, i.nca,
                                                    i.missing # "chemical_annotation"),
                              RawSampleMetadata(i.kind, i.nsm,
                                                i.missing # "sample_metadata")))

\* an in-place drop takes any list, a detached one a list of at most one
DropSamples ==
    \E arg \in SampleArgs, inplace \in BOOLEAN :
       /\ ~inplace => Len(arg) <= 1
       /\ Apply("drop_samples", arg, inplace, drop_samples(Self, arg, inplace))

DropMetabolites ==
    \E arg \in FeatureArgs, inplace \in BOOLEAN :
       /\ ~inplace => Len(arg) <= 1
       /\ Apply("drop_metabolites", arg, inplace,
                drop_metabolites(Self, arg, inplace))

DropXenobioticMetabolites ==
    /\ call.op # ""
    /\ \E inplace \in BOOLEAN :
          Apply("drop_xenobiotic_metabolites", <<>>, inplace,
                drop_xenobiotic_metabolites(Self, inplace))

ReplaceColumnNames ==
    /\ call.op # ""
    /\ \E new_column \in MetaboliteColumns :
          Apply("replace_column_names", new_column, TRUE,
                replace_column_names(Self, new_column))

MergeSampleMetadataData ==
    /\ call.op # ""
    /\ Apply("merge_sample_metadata_data", <<>>, FALSE,
             merge_sample_metadata_data(Self))

ExtractMetabolites ==
    \E arg \in FeatureArg1 :
          Apply("extract_metabolites", arg, FALSE, extract_metabolites(Self, arg))

ExtractSamples ==
    \E arg \in SampleArgs :
          Apply("extract_samples", arg, FALSE, extract_samples(Self, arg))

ExtractChemicalAnnotations ==
    \E arg \in FeatureArg1 :
          Apply("extract_chemical_annotations", arg, FALSE,
                extract_chemical_annotations(Self, arg))

SplitBySampleColumn ==
    /\ call.op # ""
    /\ \E column \in SampleColumns :
          Apply("split_by_sample_column", column, FALSE,
                split_by_sample_column(Self, column))

\* a save call: the files it wrote replace those of the same table
WriteFiles(outcome) ==
    LET written == IF outcome.ok THEN outcome.ret ELSE {}
    IN /\ Cardinality(files) < MaxFiles
       /\ files' = {f \in files : \A w \in written : w.table # f.table} \cup written

Save ==
    \E data_path \in BOOLEAN, chemical_annotation_path \in BOOLEAN,
       sample_metadata_path \in BOOLEAN :
       LET outcome == save(Self, data_path, chemical_annotation_path,
                           sample_metadata_path)
       IN /\ Call("save", [data_path |-> data_path,
                            chemical_annotation_path |-> chemical_annotation_path,
                            sample_metadata_path |-> sample_metadata_path],
                   FALSE, outcome)
          /\ WriteFiles(outcome)
          /\ UNCHANGED <<handler, models_dir, hist>>

SaveMerged ==
    \E chemical_annotation_path \in BOOLEAN :
       LET outcome == save_merged(Self, chemical_annotation_path)
       IN /\ Call("save_merged", [data_path |-> TRUE,
                                   chemical_annotation_path |-> chemical_annotation_path,
                                   sample_metadata_path |-> FALSE],
                   FALSE, outcome)
          /\ WriteFiles(outcome)
          /\ UNCHANGED <<handler, models_dir, hist>>

Next ==
    \/ ImportTables
    \/ DropSamples
    \/ DropMetabolites
    \/ DropXenobioticMetabolites
    \/ ReplaceColumnNames
    \/ MergeSampleMetadataData
    \/ ExtractMetabolites
    \/ ExtractSamples
    \/ ExtractChemicalAnnotations
    \/ SplitBySampleColumn

Spec == Init /\ [][Next]_vars

\* a call on the EffectsHandler: the manager is only read
HandlerCall(op, arg, r) ==
    /\ call' = [op |-> op, arg |-> arg, inplace |-> FALSE]
    /\ out' = [ok |-> r.ok, err |-> r.err, msg |-> r.msg, ids |-> r.ids,
               ret |-> r.ret]
    /\ pre' = Self
    /\ UNCHANGED <<sample_metadata, samples, chemical_annotation, metabolites,
                   data, metabolite_id_column, ready, files>>

\* the regression's outcomes: no fit fails, or the fit of one of the given
\* features fails with an error that mentions the feature or does not
Fits(features) ==
    {[bad |-> None, named |-> FALSE]}
      \cup {[bad |-> m, named |-> n] : m \in features, n \in BOOLEAN}

\* in a run of get_all_residuals the fit that may fail is the second
FailingFeatures == IF Len(metabolites) >= 2 THEN {metabolites[2]} ELSE {}

\* one EffectsHandler is built on the manager
CreateEffectsHandler ==
    /\ ~handler.made
    /\ \E models_path \in BOOLEAN :
          /\ HandlerCall("EffectsHandler", [models_path |-> models_path],
                         Return(handler, None))
          /\ handler' = NewEffectsHandler(Self, models_path)
          /\ hist' = [hist EXCEPT !.models_path = models_path, !.data = data]
          /\ UNCHANGED models_dir

FitModel ==
    /\ handler.made
    /\ metabolites # <<>>
    /\ \E metabolite \in {Head(metabolites)}, fit \in Fits({Head(metabolites)}) :
          /\ HandlerCall("fit_model", [metabolite |-> metabolite, fit |-> fit],
                         fit_model(handler, metabolite, fit))
          /\ UNCHANGED <<handler, models_dir, hist>>

GetAllResiduals ==
    /\ handler.made
    /\ Len(hist.returns) < MaxRuns
    /\ \E models_path \in BOOLEAN, fit \in Fits(FailingFeatures) :
          LET r == get_all_residuals(handler, Self, models_dir, models_path, fit)
          IN /\ HandlerCall("get_all_residuals",
                            [models_path |-> models_path, fit |-> fit], r)
             /\ handler' = r.d.h
             /\ models_dir' = r.d.dir
             /\ hist' = IF r.ok
                        THEN [hist EXCEPT !.returns =
                                Append(@, [ref |-> handler.residuals_id,
                                           value |-> r.ret,
                                           data |-> data])]
                        ELSE hist

\* the initialized manager (successful in-place drops of one sample, rename
\* to the unique column) with an EffectsHandler on it
NextEffects ==
    \/ ImportTables /\ ready'
    \/ DropSamples /\ call'.inplace /\ out'.ok /\ Len(call'.arg) = 1
    \/ ReplaceColumnNames /\ call'.arg = "CHEMICAL_NAME"
    \/ CreateEffectsHandler
    \/ FitModel
    \/ GetAllResiduals

SpecEffects == Init /\ [][NextEffects]_vars

\* the initialized manager (successful in-place drops of one sample or one
\* feature, rename to the unique column) and runs of get_all_residuals in
\* which every fit succeeds and no model is persisted
NextResiduals ==
    \/ ImportTables /\ ready'
    \/ DropSamples /\ call'.inplace /\ out'.ok /\ Len(call'.arg) = 1
    \/ DropMetabolites /\ call'.inplace /\ out'.ok /\ Len(call'.arg) = 1
    \/ ReplaceColumnNames /\ call'.arg = "CHEMICAL_NAME"
    \/ CreateEffectsHandler /\ ~call'.arg.models_path
    \/ GetAllResiduals /\ ~call'.arg.models_path /\ call'.arg.fit.bad = None

SpecResiduals == Init /\ [][NextResiduals]_vars

\* the manager with its save operations
NextSave ==
    \/ ImportTables
    \/ DropSamples
    \/ DropMetabolites
    \/ Save
    \/ SaveMerged

SpecSave == Init /\ [][NextSave]_vars

\* ------------------------------------------------------------------ claims
NoDuplicates(seq) == \A i, j \in 1..Len(seq) : seq[i] = seq[j] => i = j
InPlaceFeatureOps ==
    {"drop_metabolites", "drop_xenobiotic_metabolites", "replace_column_names"}
\* the last call was import_tables or an in-place mutation, it succeeded, and
\* the manager had been initialized successfully
AfterSuccessfulMutation(ops) ==
    /\ ready
    /\ out.ok
    /\ \/ call.op = "import_tables"
       \/ call.op \in ops /\ call.inplace

\* C1: after a successful initialization and every successful in-place
\* feature mutation, the abundance columns, the chemical-annotation index and
\* the list metabolites are the same identifiers in the same order.
C1_ColumnsEqualAnnotation ==
    AfterSuccessfulMutation(InPlaceFeatureOps) =>
        /\ data.columns = Index(chemical_annotation)
        /\ metabolites = data.columns

\* C2: after a successful initialization and every successful in-place
\* mutation, every row identifier of the abundance matrix is in the
\* sample-metadata index.
C2_RowsWithinSampleMetadata ==
    AfterSuccessfulMutation(InPlaceFeatureOps \cup {"drop_samples"}) =>
        Range(data.index) \subseteq Range(Index(sample_metadata))

\* C3: after a successful initialization from tables with numeric
\* identifiers, every identifier of the sample-metadata index, the
\* chemical-annotation index and the abundance row and column index is text.
C3_IdentifiersAreStrings ==
    (call.op = "import_tables" /\ out.ok /\ call.arg.kind = "num") =>
        \A id \in Range(Index(sample_metadata)) \cup Range(Index(chemical_annotation))
                    \cup Range(data.index) \cup Range(data.columns) : IsStr(id)

\* C4: when _setup_data fails, sample_metadata, data, chemical_annotation,
\* samples and metabolites are what they were before the call.
C4_SetupAllOrNothing ==
    (call.op = "import_tables" /\ ~out.ok /\ out.err = "ValueError") => Self = pre

\* C5: when an in-place drop_samples or drop_metabolites raises, the tables
\* and the cached identifier lists are unchanged.
C5_FailedDropChangesNothing ==
    (ready /\ call.op \in {"drop_samples", "drop_metabolites"} /\ call.inplace
       /\ ~out.ok)
        => Self = pre

\* C6: the non-mutating operations (drops with inplace=False, merge and the
\* extract operations) leave the tables and the identifier lists unchanged.
ReadOnlyCall ==
    \/ call.op \in {"merge_sample_metadata_data", "extract_samples",
                    "extract_metabolites", "extract_chemical_annotations"}
    \/ /\ call.op \in {"drop_samples", "drop_metabolites",
                       "drop_xenobiotic_metabolites"}
       /\ ~call.inplace
C6_ReadOnlyCallsChangeNothing == ReadOnlyCall => Self = pre
\* a detached drop returned a table that differs from the dataset's
C6_Witness ==
    /\ ready /\ out.ok /\ ~call.inplace
    /\ call.op \in {"drop_metabolites", "drop_xenobiotic_metabolites"}
    /\ Len(out.ret.columns) < Len(data.columns)

\* C7: for disjoint lists X and Y of features present in the dataset, the
\* in-place drop of X followed by that of Y leaves the same abundance matrix,
\* chemical annotation, feature list and sample metadata as one in-place drop
\* of X and Y together.
C7_DropsCompose ==
    ready =>
      \A X \in Lists(Range(data.columns)), Y \in Lists(Range(data.columns)) :
         Range(X) \cap Range(Y) = {} =>
            LET two == drop_metabolites(drop_metabolites(Self, X, TRUE).d, Y, TRUE).d
                one == drop_metabolites(Self, X \o Y, TRUE).d
            IN /\ two.data = one.data
               /\ two.chemical_annotation = one.chemical_annotation
               /\ two.metabolites = one.metabolites
               /\ two.sample_metadata = one.sample_metadata

\* C8: replace_column_names fails with ValueError when new_column is not a
\* column of the chemical annotation or when an abundance column has no
\* annotation row; in the latter case (the column being present) the error
\* names every such column; the dataset is left unchanged.
NotAnnotated(d) == Range(d.data.columns) \ Range(Index(d.chemical_annotation))
C8_RenameValidation ==
    call.op = "replace_column_names" =>
      LET absent == call.arg \notin pre.chemical_annotation.cols
      IN /\ (absent \/ NotAnnotated(pre) # {}) =>
               ~out.ok /\ out.err = "ValueError" /\ Self = pre
         /\ (~absent /\ NotAnnotated(pre) # {}) => out.ids = NotAnnotated(pre)
\* a rename was refused because two abundance columns have no annotation
C8_Witness ==
    /\ call.op = "replace_column_names"
    /\ call.arg \in pre.chemical_annotation.cols
    /\ Cardinality(NotAnnotated(pre)) >= 2
    /\ ~out.ok

\* C9: when column c is bijective over the features, replace_column_names(c)
\* followed by replace_column_names(original id column) restores the
\* abundance matrix (labels, order, cells), the chemical-annotation index,
\* the feature list and the active feature-id column.
Bijective(d, c) ==
    /\ c \in d.chemical_annotation.cols
    /\ NoDuplicates(Index(d.chemical_annotation))
    /\ NoDuplicates(Column(d.chemical_annotation, c))
C9_RenameRoundTrip ==
    [][(/\ call.op = "replace_column_names" /\ out.ok
        /\ Bijective(pre, call.arg)
        /\ call'.op = "replace_column_names"
        /\ call'.arg = pre.metabolite_id_column)
       => (/\ out'.ok
           /\ data' = pre.data
           /\ Index(chemical_annotation') = Index(pre.chemical_annotation)
           /\ metabolites' = pre.metabolites
           /\ metabolite_id_column' = pre.metabolite_id_column)]_vars
\* the second rename of a round trip CHEM_ID -> CHEMICAL_NAME -> CHEM_ID has
\* run on at least two features
C9_Witness ==
    /\ call.op = "replace_column_names" /\ out.ok
    /\ call.arg = "CHEM_ID"
    /\ pre.metabolite_id_column = "CHEMICAL_NAME"
    /\ Bijective(pre, "CHEM_ID")
    /\ Len(data.columns) >= 2
    /\ data.columns # pre.data.columns

\* C10: split_by_sample_column on a column of the sample metadata returns
\* datasets whose sample sets are pairwise disjoint and together are the
\* parent's samples (those with a missing value in the column included), each
\* with the parent's features, and whose abundance rows together are the
\* parent's abundance rows.
MatrixRows(m) == {<<m.index[i], m.vals[i]>> : i \in 1..Len(m.index)}
C10_SplitPartitionsSamples ==
    (/\ call.op = "split_by_sample_column"
     /\ call.arg \in pre.sample_metadata.cols
     /\ ready /\ Range(data.index) = Range(samples)) =>
        /\ out.ok
        /\ LET parts == out.ret.parts
               names == DOMAIN parts
           IN /\ \A n \in names, m \in names :
                    n # m => Range(parts[n].samples) \cap Range(parts[m].samples) = {}
              /\ UNION {Range(parts[n].samples) : n \in names} = Range(samples)
              /\ \A n \in names : parts[n].data.columns = data.columns
              /\ UNION {MatrixRows(parts[n].data) : n \in names} = MatrixRows(data)

\* C11: extract_samples never fails because of an absent sample identifier:
\* for text identifiers the call succeeds, and for every requested identifier
\* that is not a row of the abundance matrix the result has a row of missing
\* values.
MissingRow(ret, id) ==
    \E k \in 1..Len(ret.index) :
       /\ ret.index[k] = id
       /\ \A j \in 1..Len(ret.columns) : ret.vals[k][j] = "NaN"
C11_ExtractSamplesNeverFails ==
    (/\ ready /\ call.op = "extract_samples"
     /\ \A k \in 1..Len(call.arg) : IsStr(call.arg[k])) =>
        /\ out.ok
        /\ \A id \in Range(call.arg) \ Range(pre.data.index) : MissingRow(out.ret, id)

\* C18: initialization fails with ValueError if and only if the sample-id
\* column is absent from the sample metadata or the abundance table, or the
\* feature-id column is absent from the chemical annotation, and the error
\* names the missing column (out.ids holds the values the message of the
\* error is formatted with).
MissingColumnName(i) ==
    IF i.missing \in {"sample_metadata", "data"} THEN sample_id_column
    ELSE pre.metabolite_id_column
C18_InitValidationNamesColumn ==
    call.op = "import_tables" =>
        /\ (~out.ok /\ out.err = "ValueError") <=> (call.arg.missing # "none")
        /\ call.arg.missing # "none" => MissingColumnName(call.arg) \in out.ids

\* C19: after a successful replace_column_names on a dataset with unique
\* feature identifiers, also when new_column holds one value for two
\* features, the chemical-annotation index is unique, the abundance columns
\* are unique, and the chemical annotation has one row per abundance column.
C19_RenameKeepsIndexUnique ==
    (/\ ready /\ call.op = "replace_column_names" /\ out.ok
     /\ NoDuplicates(pre.data.columns)
     /\ NoDuplicates(Index(pre.chemical_annotation))) =>
        /\ NoDuplicates(Index(chemical_annotation))
        /\ NoDuplicates(data.columns)
        /\ Len(chemical_annotation.rows) = Len(data.columns)

\* C17: save and save_merged fail, writing nothing, exactly when a table
\* they are asked to write has zero rows.
\* the numbers of rows of the tables call c asks to write, on dataset d
AskedRows(d, c) ==
    (IF c.op = "save" /\ c.arg.data_path THEN {Len(d.data.index)} ELSE {})
    \cup (IF c.op = "save_merged"
          THEN {Len(merge_sample_metadata_data(d).ret.index)} ELSE {})
    \cup (IF c.arg.chemical_annotation_path
          THEN {Len(d.chemical_annotation.rows)} ELSE {})
    \cup (IF c.arg.sample_metadata_path
          THEN {Len(d.sample_metadata.rows)} ELSE {})
C17_SaveRefusesEmptyTables ==
    [][call'.op \in {"save", "save_merged"} =>
         /\ (~out'.ok) <=> (0 \in AskedRows(pre', call'))
         /\ (~out'.ok) => files' = files]_vars

\* C12: fit_model returns a pair whose second component is the fitted model
\* of the feature, and the fitted model is what get_all_residuals persists.
C12_FitModelReturnsFittedModel ==
    /\ (call.op = "fit_model" /\ out.ok) =>
           out.ret[2] = Fit(OLS(call.arg.metabolite))
    /\ \A p \in models_dir.pickles : p.model = Fit(OLS(p.name))

\* C13: when the fit of a feature fails during get_all_residuals, the run
\* stops at that feature (no later feature gets residuals or a model file,
\* nothing is returned) and the error carries the feature's identifier.
\* the first position of the feature list whose fit fails under `fit`
FirstFailure(h, features, fit) ==
    CHOOSE k \in 1..Len(features) :
       /\ ~fit_model(h, features[k], fit).ok
       /\ \A j \in 1..(k - 1) : fit_model(h, features[j], fit).ok
ColumnOf(m, label) ==
    [i \in 1..Len(m.index) |-> [j \in Range(Positions(m.columns, label)) |-> m.vals[i][j]]]
C13_FitFailureAbortsAndNamesFeature ==
    [][(call'.op = "get_all_residuals" /\ ~out'.ok) =>
         LET k == FirstFailure(handler, metabolites, call'.arg.fit)
         IN /\ out'.ret = None
            /\ \A j \in k..Len(metabolites) :
                  /\ ColumnOf(handler'.residuals, metabolites[j])
                        = ColumnOf(handler.residuals, metabolites[j])
                  /\ {p \in models_dir'.pickles : p.name = metabolites[j]}
                        = {p \in models_dir.pickles : p.name = metabolites[j]}
            /\ metabolites[k] \in out'.ids]_vars

\* C14: the matrix returned by a successful get_all_residuals has the row
\* index and the column index of the abundance matrix; a cell holds the
\* residual when its sample is in the merged view (the inner join with the
\* sample metadata) and the missing placeholder when it is not.
\* matrix r is the residual matrix of abundance matrix m under `merged`
ResidualsOf(r, m, merged) ==
    /\ r.index = m.index
    /\ r.columns = m.columns
    /\ \A i \in 1..Len(m.index), j \in 1..Len(m.columns) :
          r.vals[i][j] = IF m.index[i] \in Range(merged.index)
                         THEN Resid(m.vals[i][j]) ELSE NaN
C14_ResidualsAlignedToAbundance ==
    (call.op = "get_all_residuals" /\ out.ok) =>
        ResidualsOf(out.ret, data, merge_sample_metadata_data(Self).ret)

\* C15: each get_all_residuals works on a fresh residual matrix and on the
\* dataset as it is at the call: two calls on one handler do not return the
\* same matrix object, what a call returns is the residual matrix of the
\* abundance matrix of that moment, and a matrix once returned keeps its
\* value.
C15_ResidualsFreshPerInvocation ==
    /\ \A i, j \in 1..Len(hist.returns) :
          i # j => hist.returns[i].ref # hist.returns[j].ref
    /\ \A i \in 1..Len(hist.returns) :
          /\ hist.returns[i].value.index = hist.returns[i].data.index
          /\ hist.returns[i].value.columns = hist.returns[i].data.columns
          /\ hist.returns[i].ref = handler.residuals_id =>
                handler.residuals = hist.returns[i].value

\* C16: after a successful get_all_residuals, if a models directory was given
\* to the EffectsHandler constructor or to get_all_residuals, the directory
\* exists and holds exactly one model file per feature, named by the feature;
\* a run without any models directory writes no model file.
C16_ModelsPersistedWhenDirectoryGiven ==
    [][(call'.op = "get_all_residuals" /\ out'.ok) =>
          IF hist.models_path \/ call'.arg.models_path
          THEN /\ models_dir'.exists
               /\ {p.name : p \in models_dir'.pickles} = Range(metabolites)
               /\ \A p, q \in models_dir'.pickles : p.name = q.name => p = q
          ELSE models_dir' = models_dir]_vars

====
